---- MODULE Spec2Model ----
(***************************************************************************)
(* Model of the ExcelParser singleton (include/ExcelParser.cpp): the two   *)
(* static registries sheets_map and shared_strings_map, the io_mutex, and  *)
(* the decoding pipeline that fills them from a zip package.               *)
(*                                                                         *)
(* A package on disk is a record [zip_ok, members]; members maps a member  *)
(* name to Malformed or to the property tree boost would build from it.    *)
(* Texts are sequences of characters, so concatenation is \o.  The files   *)
(* on disk do not change during a behaviour: archive is chosen by Init.    *)
(***************************************************************************)
EXTENDS Integers, Sequences, FiniteSets, TLC

VARIABLES archive, sheets_map, shared_strings_map, instance, io_mutex, pc,
          open_books, docstate, last

vars == <<archive, sheets_map, shared_strings_map, instance, io_mutex, pc,
          open_books, docstate, last>>

(***************************************************************************)
(* Bounds of the model.                                                    *)
(***************************************************************************)
MaxEntries == 2
MaxHandles == 2

Paths == {"p1", "p2"}
Threads == {"t1", "t2"}
Names == {"a", "b"}
NoThread == "free"
XML_ATTR == "<xmlattr>"

(***************************************************************************)
(* std::map helpers.  A map is a function; emplace never overwrites.       *)
(***************************************************************************)
EmptyMap == <<>>

\* insert_or_assign: the value of an existing key is replaced.
EmplaceOverwrite(m, k, v) ==
  [x \in (DOMAIN m) \cup {k} |-> IF x = k THEN v ELSE m[x]]

Emplace(m, k, v) ==
  IF k \in DOMAIN m THEN m
  ELSE [x \in (DOMAIN m) \cup {k} |-> IF x = k THEN v ELSE m[x]]

Erase(m, k) == [x \in (DOMAIN m) \ {k} |-> m[x]]

\* m[k] of std::map: creates a default (empty) value when the key is absent.
Subscript(m, k) == IF k \in DOMAIN m THEN m[k] ELSE EmptyMap

Put(m, k, v) == [x \in (DOMAIN m) \cup {k} |-> IF x = k THEN v ELSE m[x]]

\* Order of std::map<std::string, ...> iteration over the sheet names.
NameRank == [n \in Names |-> IF n = "a" THEN 1 ELSE 2]

MinName(S) == CHOOSE n \in S : \A m \in S : NameRank[n] <= NameRank[m]

MinInt(S) == CHOOSE n \in S : \A m \in S : n <= m

(***************************************************************************)
(* Results of an operation: a value returned or an exception thrown.       *)
(***************************************************************************)
Return(v) == [status |-> "return", what |-> "ok", value |-> v]
Throw(w) == [status |-> "throw", what |-> w, value |-> <<>>]

ArchiveOpenError == "runtime_error: opening spreadsheet archive"
DocumentNotOpen == "runtime_error: finding spreadsheet with name"
SheetNotFound == "runtime_error: finding sheet with name"
IndexNotFound == "runtime_error: finding shared string with index"
RuntimeErrorPtr == "runtime_error*"
PtreeBadPath == "ptree_bad_path"
InvalidArgument == "invalid_argument"

(***************************************************************************)
(* readFileFromArchive: every failure is raised with `throw new`, that is  *)
(* as a pointer.  zip_name_locate's -1 is stored in an unsigned, so the    *)
(* test `location < 0` never fires and a missing member is reported by the *)
(* metadata test that follows it.                                          *)
(***************************************************************************)
Malformed == [wellformed |-> FALSE, tree |-> <<>>]
Xml(t) == [wellformed |-> TRUE, tree |-> t]

readFileFromArchive(book, file_name) ==
  IF file_name \notin DOMAIN book.members THEN Throw(RuntimeErrorPtr)
  ELSE IF ~book.members[file_name].wellformed THEN Throw(RuntimeErrorPtr)
  ELSE Return(book.members[file_name].tree)

(***************************************************************************)
(* Shared strings part.  The tree of sharedStrings.xml is                  *)
(*   [root, children], children the <sst> element's children in order;     *)
(* a child is [tag, kids]; a kid (child of an <si>) is                     *)
(* [tag, data, has_t, t] where data is the kid's own text and t the text   *)
(* of its first <t> child when it has one (has_t).                         *)
(***************************************************************************)
HasChild(kids, key) == \E i \in 1..Len(kids) : kids[i].tag = key

FirstChild(kids, key) ==
  kids[CHOOSE i \in 1..Len(kids) :
         kids[i].tag = key /\ \A j \in 1..(i - 1) : kids[j].tag # key]

RECURSIVE ConcatT(_)
ConcatT(kids) ==
  IF kids = <<>> THEN <<>> ELSE Head(kids).t \o ConcatT(Tail(kids))

\* Lines 137-151: the string of one entry, or the ptree_error its extraction
\* raises.  The rich-text loop visits every child of the entry.
ExtractEntry(kids) ==
  IF HasChild(kids, "r")
  THEN IF \A i \in 1..Len(kids) : kids[i].has_t
       THEN Return(ConcatT(kids))
       ELSE Throw(PtreeBadPath)
  ELSE IF HasChild(kids, "t")
       THEN Return(FirstChild(kids, "t").data)
       ELSE Throw(PtreeBadPath)

\* The index advanced only once the entry has been extracted.
NextIndexOnSuccess(index, extracted) ==
  IF extracted.status = "return" THEN index + 1 ELSE index

\* Line 136: the index is advanced at the top of the try block, before the
\* extraction that may throw.
NextIndex(index, extracted) == index + 1

\* Lines 130-158, the loop over the children of <sst>: ssm is the whole
\* shared_strings_map, index the value of `index` before the child.
RECURSIVE ReadEntries(_, _, _, _)
ReadEntries(children, index, file_name, ssm) ==
  IF children = <<>> THEN ssm
  ELSE LET c == Head(children) IN
       IF c.tag = XML_ATTR
       THEN ReadEntries(Tail(children), index, file_name, ssm)
       ELSE LET x == ExtractEntry(c.kids)
                i == NextIndex(index, x)
            IN IF x.status = "return"
               THEN ReadEntries(Tail(children), i, file_name,
                      Put(ssm, file_name,
                          Emplace(Subscript(ssm, file_name), i, x.value)))
               ELSE ReadEntries(Tail(children), i, file_name, ssm)

SharedStringsMember == <<"sharedStrings.xml">>
WorkbookMember == <<"workbook.xml">>
SheetMember(n) == <<"sheet", n, ".xml">>

\* Lines 123-164.  The read of the member is outside the try blocks.
readSharedStrings(file_name, book, ssm) ==
  LET f == readFileFromArchive(book, SharedStringsMember) IN
  IF f.status = "throw" THEN [res |-> f, ssm |-> ssm]
  ELSE IF f.value.root # "sst" THEN [res |-> Return(<<>>), ssm |-> ssm]
  ELSE [res |-> Return(<<>>),
        ssm |-> ReadEntries(f.value.children, -1, file_name, ssm)]

(***************************************************************************)
(* std::stoi on a text: the value of the leading run of digits, or         *)
(* invalid_argument when the text does not start with a digit.             *)
(***************************************************************************)
DigitChars == <<"0", "1", "2", "3", "4", "5", "6", "7", "8", "9">>
IsDigit(c) == \E d \in 1..10 : DigitChars[d] = c
DigitVal(c) == (CHOOSE d \in 1..10 : DigitChars[d] = c) - 1
IsAlpha(c) == c \in {"A", "B", "C", "r", "I", "d"}

RECURSIVE StoIAcc(_, _)
StoIAcc(s, acc) ==
  IF s = <<>> \/ ~IsDigit(Head(s)) THEN acc
  ELSE StoIAcc(Tail(s), 10 * acc + DigitVal(Head(s)))

StoI(s) ==
  IF s = <<>> \/ ~IsDigit(Head(s)) THEN Throw(InvalidArgument)
  ELSE Return(StoIAcc(s, 0))

\* std::string::erase(0, 3)
Erase3(s) == SubSeq(s, 4, Len(s))

(***************************************************************************)
(* getAttributes: a node is [has_attr, attrs, ...]; attrs is the map of    *)
(* its <xmlattr> child.  A node without attributes raises a pointer.       *)
(***************************************************************************)
getAttributes(node) ==
  IF node.has_attr THEN Return(node.attrs) ELSE Throw(RuntimeErrorPtr)

(***************************************************************************)
(* Workbook part: [has_sheets, sheets]; sheets are the children of         *)
(* workbook.sheets, each [has_attr, attrs] with attrs over "name", "r:id". *)
(***************************************************************************)
\* Lines 184-190, one child of <sheets>: the id_name_map after it, or the
\* exception that ends the loop.
RECURSIVE ReadSheetList(_, _)
ReadSheetList(children, id_name_map) ==
  IF children = <<>> THEN Return(id_name_map)
  ELSE LET c == Head(children) IN
       IF ~c.has_attr \/ "name" \notin DOMAIN c.attrs
          \/ "r:id" \notin DOMAIN c.attrs
       THEN [status |-> "throw", what |-> PtreeBadPath, value |-> id_name_map]
       ELSE LET id == StoI(Erase3(c.attrs["r:id"])) IN
            IF id.status = "throw"
            THEN [status |-> "throw", what |-> InvalidArgument,
                  value |-> id_name_map]
            ELSE ReadSheetList(Tail(children),
                               Emplace(id_name_map, id.value, c.attrs["name"]))

\* Lines 197-210: the sheet members are read in ascending id order.  The
\* catch clause at line 206 takes a std::runtime_error by value and so does
\* not take the pointer that readFileFromArchive throws.
RECURSIVE ReadSheetMembers(_, _, _)
ReadSheetMembers(book, id_name_map, name_sheet_tree_map) ==
  IF DOMAIN id_name_map = {} THEN Return(name_sheet_tree_map)
  ELSE LET id == MinInt(DOMAIN id_name_map)
           f == readFileFromArchive(book, SheetMember(id))
       IN IF f.status = "throw" THEN f
          ELSE ReadSheetMembers(book, Erase(id_name_map, id),
                 Emplace(name_sheet_tree_map, id_name_map[id], f.value))

\* Lines 166-212.  The catch at line 176 does not take the pointer either,
\* so exit(1) is not reached and the pointer leaves the function.
readWorkbookToTrees(book) ==
  LET f == readFileFromArchive(book, WorkbookMember) IN
  IF f.status = "throw" THEN f
  ELSE LET l == IF f.value.has_sheets
                THEN ReadSheetList(f.value.sheets, EmptyMap)
                ELSE [status |-> "throw", what |-> PtreeBadPath,
                      value |-> EmptyMap]
       IN IF l.status = "throw" /\ l.what # PtreeBadPath THEN Throw(l.what)
          ELSE ReadSheetMembers(book, l.value, EmptyMap)

(***************************************************************************)
(* Sheet part: [has_sheetData, rows]; rows are the children of             *)
(* worksheet.sheetData, each [tag, has_attr, attrs, cells]; a cell is      *)
(* [tag, has_v, v, has_attr, attrs].                                       *)
(***************************************************************************)
\* Lines 245-247: the reference without its non-alphabetic characters.
RECURSIVE ColumnKey(_)
ColumnKey(ref) ==
  IF ref = <<>> THEN <<>>
  ELSE IF IsAlpha(Head(ref)) THEN <<Head(ref)>> \o ColumnKey(Tail(ref))
  ELSE ColumnKey(Tail(ref))

\* Lines 249-258
CellTypeOf(cell_attributes) ==
  IF "t" \in DOMAIN cell_attributes THEN "STRING" ELSE "NUMBER"

\* Lines 235-265, the loop over the children of one row: the row built so
\* far, or the exception that leaves the loop.
RECURSIVE ParseCells(_, _)
ParseCells(cells, r) ==
  IF cells = <<>> THEN Return(r)
  ELSE LET c == Head(cells) IN
       IF c.tag # "c" THEN ParseCells(Tail(cells), r)
       ELSE IF ~c.has_v THEN ParseCells(Tail(cells), r)
       ELSE LET a == getAttributes(c) IN
            IF a.status = "throw" THEN a
            ELSE IF "r" \notin DOMAIN a.value THEN Throw("out_of_range")
            ELSE ParseCells(Tail(cells),
                   Emplace(r, ColumnKey(a.value["r"]),
                           [type |-> CellTypeOf(a.value), value |-> c.v]))

\* Lines 226-277, the loop over the children of sheetData.  out_of_range is
\* caught per row; a thrown pointer and stoi's invalid_argument are not.
RECURSIVE ParseRows(_, _)
ParseRows(rows, s) ==
  IF rows = <<>> THEN Return(s)
  ELSE LET row_tree == Head(rows) IN
       IF row_tree.tag # "row" THEN ParseRows(Tail(rows), s)
       ELSE LET a == getAttributes(row_tree) IN
            IF a.status = "throw" THEN a
            ELSE IF "r" \notin DOMAIN a.value THEN ParseRows(Tail(rows), s)
            ELSE LET row_id == StoI(a.value["r"]) IN
                 IF row_id.status = "throw" THEN row_id
                 ELSE LET r == ParseCells(row_tree.cells, EmptyMap) IN
                      IF r.status = "throw"
                      THEN IF r.what = "out_of_range"
                           THEN ParseRows(Tail(rows), s)
                           ELSE r
                      ELSE ParseRows(Tail(rows),
                                     Emplace(s, row_id.value, r.value))

\* Lines 222-279
parseSheet(sheet_tree) ==
  IF ~sheet_tree.has_sheetData THEN Throw(PtreeBadPath)
  ELSE ParseRows(sheet_tree.rows, EmptyMap)

\* Lines 214-220: sheets are stored in name order.  The build is C++17, where
\* sheets_map[file_name] is evaluated before the argument parseSheet(...), so
\* an exception of parseSheet leaves file_name in sheets_map with the sheets
\* stored before it.
RECURSIVE parseSheetTrees(_, _, _)
parseSheetTrees(file_name, name_sheet_tree_map, sm) ==
  IF DOMAIN name_sheet_tree_map = {} THEN [res |-> Return(<<>>), sm |-> sm]
  ELSE LET n == MinName(DOMAIN name_sheet_tree_map)
           s == parseSheet(name_sheet_tree_map[n])
       IN IF s.status = "throw"
          THEN [res |-> s, sm |-> Put(sm, file_name, Subscript(sm, file_name))]
          ELSE parseSheetTrees(file_name, Erase(name_sheet_tree_map, n),
                 Put(sm, file_name,
                     Emplace(Subscript(sm, file_name), n, s.value)))

(***************************************************************************)
(* The public queries, as functions of the registries.                     *)
(***************************************************************************)
RECURSIVE NamesInOrder(_)
NamesInOrder(S) ==
  IF S = {} THEN <<>>
  ELSE LET n == MinName(S) IN <<n>> \o NamesInOrder(S \ {n})

\* Lines 63-80
GetSheet(sm, file_name, sheet_name) ==
  IF file_name \notin DOMAIN sm THEN Throw(DocumentNotOpen)
  ELSE IF sheet_name \notin DOMAIN sm[file_name] THEN Throw(SheetNotFound)
  ELSE Return(sm[file_name][sheet_name])

\* Lines 82-99
GetSharedString(ssm, file_name, shared_string_index) ==
  IF file_name \notin DOMAIN ssm THEN Throw(DocumentNotOpen)
  ELSE IF shared_string_index \notin DOMAIN ssm[file_name]
       THEN Throw(IndexNotFound)
  ELSE Return(ssm[file_name][shared_string_index])

\* Lines 101-118
GetSheetNames(sm, file_name) ==
  IF file_name \notin DOMAIN sm THEN Throw(DocumentNotOpen)
  ELSE Return(NamesInOrder(DOMAIN sm[file_name]))

(***************************************************************************)
(* openExcelFile, lines 33-47, as a function of the registries: the result *)
(* of the call, the registries after it, whether zip_open was called (io)  *)
(* and whether the handle it returned is still open at the end (leak).     *)
(***************************************************************************)
OpenOutcome(file_name, book, sm, ssm) ==
  IF file_name \in DOMAIN sm
  THEN [res |-> Return(<<>>), sm |-> sm, ssm |-> ssm, io |-> FALSE,
        leak |-> FALSE]
  ELSE IF ~book.zip_ok
  THEN [res |-> Throw(ArchiveOpenError), sm |-> sm, ssm |-> ssm, io |-> TRUE,
        leak |-> FALSE]
  ELSE LET ss == readSharedStrings(file_name, book, ssm) IN
       IF ss.res.status = "throw"
       THEN [res |-> ss.res, sm |-> sm, ssm |-> ss.ssm, io |-> TRUE,
             leak |-> TRUE]
       ELSE LET wb == readWorkbookToTrees(book) IN
            IF wb.status = "throw"
            THEN [res |-> Throw(wb.what), sm |-> sm, ssm |-> ss.ssm,
                  io |-> TRUE, leak |-> TRUE]
            ELSE LET ps == parseSheetTrees(file_name, wb.value, sm) IN
                 IF ps.res.status = "throw"
                 THEN [res |-> ps.res, sm |-> ps.sm, ssm |-> ss.ssm,
                       io |-> TRUE, leak |-> TRUE]
                 ELSE [res |-> Return(<<>>), sm |-> ps.sm, ssm |-> ss.ssm,
                       io |-> TRUE, leak |-> FALSE]

\* closeExcelFile clearing the whole registry of sheets.
CloseSheetsAll(file_name, sm) ==
  IF file_name \in DOMAIN sm THEN EmptyMap ELSE sm

\* Lines 53-56
CloseSheets(file_name, sm) ==
  IF file_name \in DOMAIN sm THEN Erase(sm, file_name) ELSE sm

\* closeExcelFile forgetting the shared strings.
CloseStringsKept(file_name, ssm) == ssm

\* Lines 57-60
CloseStrings(file_name, ssm) ==
  IF file_name \in DOMAIN ssm THEN Erase(ssm, file_name) ELSE ssm

(***************************************************************************)
(* The packages the model opens.                                           *)
(***************************************************************************)
Kid(tag, data, has_t, t) == [tag |-> tag, data |-> data, has_t |-> has_t, t |-> t]
KidT(x) == Kid("t", x, FALSE, <<>>)
KidR(x) == Kid("r", <<>>, TRUE, x)
KidRNoT == Kid("r", <<>>, FALSE, <<>>)
KidRPh(x) == Kid("rPh", <<>>, TRUE, x)
KidPhoneticPr == Kid("phoneticPr", <<>>, FALSE, <<>>)

Si(kids) == [tag |-> "si", kids |-> kids]
SstAttr == [tag |-> XML_ATTR, kids |-> <<>>]
Sst(children) == [root |-> "sst", children |-> children]

Attrs(has, m) == [has_attr |-> has, attrs |-> m]
SheetDecl(name, rid) ==
  Attrs(TRUE, [k \in {"name", "r:id"} |-> IF k = "name" THEN name ELSE rid])
RId(c) == <<"r", "I", "d", c>>
Workbook(decls) == [has_sheets |-> TRUE, sheets |-> decls]
WorkbookNoSheets == [has_sheets |-> FALSE, sheets |-> <<>>]

CellNode(ref, typed, v) ==
  [tag |-> "c", has_v |-> TRUE, v |-> v, has_attr |-> TRUE,
   attrs |-> IF typed THEN [k \in {"r", "t"} |-> IF k = "r" THEN ref ELSE <<"s">>]
             ELSE [k \in {"r"} |-> ref]]
RowNode(r, cells) ==
  [tag |-> "row", has_attr |-> TRUE, attrs |-> [k \in {"r"} |-> r],
   cells |-> cells]
SheetData(rows) == [has_sheetData |-> TRUE, rows |-> rows]
SheetNoData == [has_sheetData |-> FALSE, rows |-> <<>>]

\* The two sheets of the test book: header and one data row; one number.
SheetOne ==
  SheetData(<<RowNode(<<"1">>, <<CellNode(<<"A", "1">>, TRUE, <<"0">>)>>),
              RowNode(<<"2">>, <<CellNode(<<"A", "2">>, TRUE, <<"1">>),
                                 CellNode(<<"B", "2">>, FALSE, <<"5">>)>>)>>)
SheetTwo ==
  SheetData(<<RowNode(<<"1">>, <<CellNode(<<"A", "1">>, FALSE, <<"7">>)>>)>>)

Package(zip_ok, members) == [zip_ok |-> zip_ok, members |-> members]
NoFile == Package(FALSE, EmptyMap)

\* The members of a package from its parts; an absent part is given as {}.
Members(sst, wb, s1, s2) ==
  LET parts == [m \in {SharedStringsMember, WorkbookMember, SheetMember(1),
                       SheetMember(2)} |->
                  IF m = SharedStringsMember THEN sst
                  ELSE IF m = WorkbookMember THEN wb
                  ELSE IF m = SheetMember(1) THEN s1 ELSE s2]
      present == {m \in DOMAIN parts : parts[m] # {}}
  IN [m \in present |-> CHOOSE x \in parts[m] : TRUE]

TextA == <<"a">>
TextB == <<"b">>
TextX == <<"x">>

GoodSst == Sst(<<SstAttr, Si(<<KidT(TextA)>>), Si(<<KidR(TextB), KidR(TextA)>>)>>)

SpecSsts ==
  { {}, {Xml(Sst(<<SstAttr>>))}, {Xml(GoodSst)},
    {Xml(Sst(<<SstAttr, Si(<<>>), Si(<<KidT(TextA)>>)>>))} }

GoodWorkbook ==
  Workbook(<<SheetDecl("a", RId("1")), SheetDecl("b", RId("2"))>>)

SpecWorkbooks ==
  { {Malformed}, {Xml(WorkbookNoSheets)}, {Xml(GoodWorkbook)},
    {Xml(Workbook(<<SheetDecl("a", RId("2")), SheetDecl("b", RId("1"))>>))},
    {Xml(Workbook(<<SheetDecl("a", RId("1")), SheetDecl("b", RId("1"))>>))},
    {Xml(Workbook(<<SheetDecl("a", RId("1")), SheetDecl("a", RId("2"))>>))},
    {Xml(Workbook(<<SheetDecl("a", RId("x"))>>))} }

SpecSheets1 == { {}, {Xml(SheetOne)} }
SpecSheets2 == { {}, {Xml(SheetTwo)}, {Xml(SheetNoData)} }

Packages ==
  {NoFile} \cup
  {Package(TRUE, Members(sst, wb, s1, s2)) :
     sst \in SpecSsts, wb \in SpecWorkbooks, s1 \in SpecSheets1,
     s2 \in SpecSheets2}

GoodPackage ==
  Package(TRUE, Members({Xml(GoodSst)}, {Xml(GoodWorkbook)}, {Xml(SheetOne)},
                        {Xml(SheetTwo)}))

\* Strings but no workbook part: openExcelFile ends with an exception.
NoWorkbookPackage ==
  Package(TRUE, Members({Xml(GoodSst)}, {}, {Xml(SheetOne)}, {Xml(SheetTwo)}))

OtherPackages == {GoodPackage, NoWorkbookPackage}

(***************************************************************************)
(* State.  last is the record of the operation that completed last: its    *)
(* name and arguments, what it returned or threw, whether it called        *)
(* zip_open (io), and whether its path was in `opened` when it started     *)
(* (prior).  docstate records the calls made on each path: "closed"        *)
(* (never opened, or closed since), "open" (openExcelFile has returned     *)
(* without an exception and the path was not closed since) or "failed"     *)
(* (openExcelFile has ended with an exception and none has returned        *)
(* since the path was last closed).                                        *)
(***************************************************************************)
Indexes == 0..MaxEntries

Idle(ret) == [at |-> "idle", op |-> "none", file |-> "", name |-> "",
              index |-> -1, ret |-> ret]

opened == {p \in Paths : docstate[p] = "open"}

Done(op, file, name, index, res, io) ==
  [tick |-> 1 - last.tick, op |-> op, file |-> file, name |-> name,
   index |-> index, res |-> res, io |-> io, prior |-> file \in opened]

InitRegistry ==
  /\ sheets_map = EmptyMap
  /\ shared_strings_map = EmptyMap
  /\ instance = "nullptr"
  /\ io_mutex = NoThread
  /\ pc = [t \in Threads |-> Idle("none")]
  /\ open_books = 0
  /\ docstate = [p \in Paths |-> "closed"]
  /\ last = [tick |-> 0, op |-> "none", file |-> "", name |-> "", index |-> -1,
             res |-> Return(<<>>), io |-> FALSE, prior |-> FALSE]

Init ==
  /\ archive \in {[p \in Paths |-> IF p = "p1" THEN a ELSE b] :
                    a \in Packages, b \in OtherPackages}
  /\ InitRegistry

(***************************************************************************)
(* The bodies of the public methods, between the construction and the      *)
(* destruction of the lock_guard.                                          *)
(***************************************************************************)
BodyGetInstance ==
  /\ instance' = "ExcelParser"
  /\ UNCHANGED <<archive, sheets_map, shared_strings_map, open_books, docstate>>

BodyOpen(file_name) ==
  LET o == OpenOutcome(file_name, archive[file_name], sheets_map,
                       shared_strings_map)
  IN /\ o.leak => open_books < MaxHandles
     /\ sheets_map' = o.sm
     /\ shared_strings_map' = o.ssm
     /\ open_books' = IF o.leak THEN open_books + 1 ELSE open_books
     /\ docstate' = [docstate EXCEPT ![file_name] =
                        IF o.res.status = "return" THEN "open"
                        ELSE IF @ = "open" THEN "open" ELSE "failed"]
     /\ UNCHANGED <<archive, instance>>

BodyClose(file_name) ==
  /\ sheets_map' = CloseSheets(file_name, sheets_map)
  /\ shared_strings_map' = CloseStrings(file_name, shared_strings_map)
  /\ docstate' = [docstate EXCEPT ![file_name] = "closed"]
  /\ UNCHANGED <<archive, instance, open_books>>

\* The three queries change neither registry.
BodyQuery ==
  UNCHANGED <<archive, sheets_map, shared_strings_map, instance, open_books,
              docstate>>

\* What the call c = [op, file, name, index] returns or throws, and whether
\* it calls zip_open, in the current state.
ResultOf(c) ==
  IF c.op = "openExcelFile"
  THEN OpenOutcome(c.file, archive[c.file], sheets_map, shared_strings_map).res
  ELSE IF c.op = "getSheet" THEN GetSheet(sheets_map, c.file, c.name)
  ELSE IF c.op = "getSharedString"
  THEN GetSharedString(shared_strings_map, c.file, c.index)
  ELSE IF c.op = "getSheetNames" THEN GetSheetNames(sheets_map, c.file)
  ELSE Return(<<>>)

IoOf(c) ==
  /\ c.op = "openExcelFile"
  /\ OpenOutcome(c.file, archive[c.file], sheets_map, shared_strings_map).io

TheCall(op, file_name, sheet_name, i) ==
  [op |-> op, file |-> file_name, name |-> sheet_name, index |-> i]

Record(c) ==
  last' = Done(c.op, c.file, c.name, c.index, ResultOf(c), IoOf(c))

(***************************************************************************)
(* Sequential clients: each call runs from lock to unlock in one step.     *)
(***************************************************************************)
openExcelFile(file_name) ==
  /\ BodyOpen(file_name)
  /\ Record(TheCall("openExcelFile", file_name, "", -1))
  /\ UNCHANGED <<io_mutex, pc>>

closeExcelFile(file_name) ==
  /\ BodyClose(file_name)
  /\ Record(TheCall("closeExcelFile", file_name, "", -1))
  /\ UNCHANGED <<io_mutex, pc>>

getSheet(file_name, sheet_name) ==
  /\ BodyQuery
  /\ Record(TheCall("getSheet", file_name, sheet_name, -1))
  /\ UNCHANGED <<io_mutex, pc>>

getSharedString(file_name, shared_string_index) ==
  /\ BodyQuery
  /\ Record(TheCall("getSharedString", file_name, "", shared_string_index))
  /\ UNCHANGED <<io_mutex, pc>>

getSheetNames(file_name) ==
  /\ BodyQuery
  /\ Record(TheCall("getSheetNames", file_name, "", -1))
  /\ UNCHANGED <<io_mutex, pc>>

Next ==
  \E file_name \in Paths :
    \/ openExcelFile(file_name)
    \/ closeExcelFile(file_name)
    \/ \E sheet_name \in Names : getSheet(file_name, sheet_name)
    \/ \E i \in Indexes : getSharedString(file_name, i)
    \/ getSheetNames(file_name)

Spec == Init /\ [][Next]_vars

(***************************************************************************)
(* Client threads.  A thread calls a public method (Call), constructs the  *)
(* lock_guard on io_mutex, which blocks while another thread holds the     *)
(* mutex (Lock), and runs the body; the lock_guard is destroyed when the   *)
(* body returns or an exception unwinds it (Run).                          *)
(***************************************************************************)
Ops == {"getInstance", "openExcelFile", "closeExcelFile", "getSheet",
        "getSharedString", "getSheetNames"}

Call(t, op, file_name, sheet_name, i) ==
  /\ pc[t].at = "idle"
  /\ pc' = [pc EXCEPT ![t] = [at |-> "lock", op |-> op, file |-> file_name,
                              name |-> sheet_name, index |-> i,
                              ret |-> pc[t].ret]]
  /\ UNCHANGED <<archive, sheets_map, shared_strings_map, instance, io_mutex,
                 open_books, docstate, last>>

\* A method that takes io_mutex without waiting for it.
LockGuardNoWait(t) == io_mutex' = t

\* std::lock_guard<std::mutex> lock(io_mutex), the first statement of every
\* public method.
LockGuard(t) ==
  /\ io_mutex = NoThread
  /\ io_mutex' = t

Lock(t) ==
  /\ pc[t].at = "lock"
  /\ LockGuard(t)
  /\ pc' = [pc EXCEPT ![t].at = "body"]
  /\ UNCHANGED <<archive, sheets_map, shared_strings_map, instance,
                 open_books, docstate, last>>

Body(c) ==
  \/ c.op = "getInstance" /\ BodyGetInstance
  \/ c.op = "openExcelFile" /\ BodyOpen(c.file)
  \/ c.op = "closeExcelFile" /\ BodyClose(c.file)
  \/ c.op \in {"getSheet", "getSharedString", "getSheetNames"} /\ BodyQuery

Run(t) ==
  /\ pc[t].at = "body"
  /\ Body(pc[t])
  /\ io_mutex' = NoThread
  /\ pc' = [pc EXCEPT ![t] = Idle(ResultOf(pc[t]).status)]
  /\ UNCHANGED last

ThreadPackages == {GoodPackage, NoWorkbookPackage}

InitThreads ==
  /\ archive \in [Paths -> ThreadPackages]
  /\ InitRegistry

NextThreads ==
  \E t \in Threads :
    \/ Call(t, "getInstance", "", "", -1)
    \/ \E f \in Paths :
         \/ Call(t, "openExcelFile", f, "", -1)
         \/ Call(t, "closeExcelFile", f, "", -1)
         \/ \E n \in Names : Call(t, "getSheet", f, n, -1)
         \/ \E i \in Indexes : Call(t, "getSharedString", f, "", i)
         \/ Call(t, "getSheetNames", f, "", -1)
    \/ Lock(t)
    \/ Run(t)

SpecThreads == InitThreads /\ [][NextThreads]_vars

(***************************************************************************)
(* Shared strings inputs: p1 is a package whose shared strings part holds  *)
(* up to MaxEntries <si> entries, each with up to two children taken from  *)
(* a plain text node, a run, a run without text node, a phonetic run and a *)
(* phonetic properties element; the client opens it and asks for strings.  *)
(***************************************************************************)
KidNodes == {KidT(TextA), KidR(TextB), KidRNoT, KidRPh(TextX), KidPhoneticPr}

SiKids ==
  {<<>>} \cup {<<k>> : k \in KidNodes}
         \cup {<<k1, k2>> : k1 \in KidNodes, k2 \in KidNodes}

RECURSIVE SiSeqs(_)
SiSeqs(n) ==
  IF n = 0 THEN {<<>>}
  ELSE LET S == SiSeqs(n - 1) IN
       S \cup {Append(q, Si(k)) : q \in {x \in S : Len(x) = n - 1}, k \in SiKids}

SstInputs == {Sst(<<SstAttr>> \o q) : q \in SiSeqs(MaxEntries)}

OneSheetWorkbook == Workbook(<<SheetDecl("a", RId("1"))>>)

InitStrings ==
  /\ archive \in {[p \in Paths |->
                     IF p = "p1"
                     THEN Package(TRUE, Members({Xml(t)}, {Xml(OneSheetWorkbook)},
                                                {Xml(SheetTwo)}, {}))
                     ELSE NoFile] : t \in SstInputs}
  /\ InitRegistry

NextStrings ==
  \/ openExcelFile("p1")
  \/ \E i \in Indexes : getSharedString("p1", i)

SpecStrings == InitStrings /\ [][NextStrings]_vars

(***************************************************************************)
(* Sheet inputs: p1 is a package whose workbook declares sheet "a" and     *)
(* whose sheet1.xml holds one or two rows.  A row numbered 1 holds up to   *)
(* MaxCells cells taken from two cells of column A, a cell of column B and *)
(* a cell without <v>; the other rows are a row 2, a row without           *)
(* attributes, a row whose attributes lack r, a row whose r is not a       *)
(* number and a row with a cell whose attributes lack r.  The client opens *)
(* the package and asks for its sheets.                                    *)
(***************************************************************************)
MaxCells == 2

CellNoValue(ref) == [CellNode(ref, FALSE, <<>>) EXCEPT !.has_v = FALSE]
CellNoRef(v) ==
  [CellNode(<<>>, TRUE, v) EXCEPT !.attrs = [k \in {"t"} |-> <<"s">>]]
RowNoAttr(cells) ==
  [RowNode(<<>>, cells) EXCEPT !.has_attr = FALSE, !.attrs = EmptyMap]
RowNoR(cells) ==
  [RowNode(<<>>, cells) EXCEPT !.attrs = [k \in {"spans"} |-> <<"1">>]]

CellInputs ==
  {CellNode(<<"A", "1">>, TRUE, <<"0">>), CellNode(<<"A", "2">>, FALSE, <<"5">>),
   CellNode(<<"B", "1">>, FALSE, <<"7">>), CellNoValue(<<"A", "1">>)}

RECURSIVE CellSeqs(_)
CellSeqs(n) ==
  IF n = 0 THEN {<<>>}
  ELSE LET S == CellSeqs(n - 1) IN
       S \cup {Append(q, c) : q \in {x \in S : Len(x) = n - 1}, c \in CellInputs}

RowTwo == RowNode(<<"2">>, <<CellNode(<<"A", "2">>, TRUE, <<"1">>)>>)
OneCell == <<CellNode(<<"A", "1">>, FALSE, <<"7">>)>>

RowInputs ==
  {RowNode(<<"1">>, cs) : cs \in CellSeqs(MaxCells)}
    \cup {RowTwo, RowNoAttr(OneCell), RowNoR(OneCell), RowNode(<<"x">>, OneCell),
          RowNode(<<"2">>, <<CellNoRef(<<"1">>)>>)}

SheetInputs ==
  {SheetData(<<r>>) : r \in RowInputs}
    \cup {SheetData(<<r1, r2>>) : r1 \in RowInputs, r2 \in RowInputs}

InitSheets ==
  /\ archive \in {[p \in Paths |->
                     IF p = "p1"
                     THEN Package(TRUE, Members({Xml(GoodSst)}, {Xml(OneSheetWorkbook)},
                                                {Xml(s)}, {}))
                     ELSE NoFile] : s \in SheetInputs}
  /\ InitRegistry

NextSheets ==
  \/ openExcelFile("p1")
  \/ \E n \in Names : getSheet("p1", n)

SpecSheets == InitSheets /\ [][NextSheets]_vars

(***************************************************************************)
(* What a package declares, read off the archive (not off the registries). *)
(***************************************************************************)
IsNotOpen(r) == r.status = "throw" /\ r.what = DocumentNotOpen

AllNotOpen(sm, ssm, p) ==
  /\ \A n \in Names : IsNotOpen(GetSheet(sm, p, n))
  /\ \A i \in Indexes : IsNotOpen(GetSharedString(ssm, p, i))
  /\ IsNotOpen(GetSheetNames(sm, p))

Readable(p, m) == readFileFromArchive(archive[p], m).status = "return"
Part(p, m) == readFileFromArchive(archive[p], m).value

Declared(p) ==
  IF Readable(p, WorkbookMember) /\ Part(p, WorkbookMember).has_sheets
  THEN Part(p, WorkbookMember).sheets ELSE <<>>

DeclName(d) == d.attrs["name"]
DeclId(d) == StoI(Erase3(d.attrs["r:id"])).value

\* The package opens, its shared strings and workbook parts are readable and
\* every sheet declaration carries a name and a numbered relationship id.
WellDeclared(p) ==
  /\ archive[p].zip_ok
  /\ Readable(p, SharedStringsMember)
  /\ Readable(p, WorkbookMember)
  /\ Part(p, WorkbookMember).has_sheets
  /\ \A i \in 1..Len(Declared(p)) :
       LET d == Declared(p)[i] IN
       /\ d.has_attr /\ {"name", "r:id"} \subseteq DOMAIN d.attrs
       /\ StoI(Erase3(d.attrs["r:id"])).status = "return"

DeclaredNames(p) == {DeclName(Declared(p)[i]) : i \in 1..Len(Declared(p))}

MemberMissing(p, d) == ~Readable(p, SheetMember(DeclId(d)))
MemberParses(p, d) ==
  /\ Readable(p, SheetMember(DeclId(d)))
  /\ parseSheet(Part(p, SheetMember(DeclId(d)))).status = "return"

Step(op, p) == last'.tick # last.tick /\ last'.op = op /\ last'.file = p

Registered(sm, ssm, p) == <<p \in DOMAIN sm, Subscript(sm, p),
                            p \in DOMAIN ssm, Subscript(ssm, p)>>

(***************************************************************************)
(* C1: openExcelFile on a path whose openExcelFile has returned without an *)
(* exception and that was not closed since calls no zip_open and leaves    *)
(* what is registered for the path as it was.                              *)
(***************************************************************************)
C1_OpenIdempotent ==
  [][\A p \in Paths :
       (Step("openExcelFile", p) /\ docstate[p] = "open") =>
         /\ ~last'.io
         /\ Registered(sheets_map', shared_strings_map', p)
              = Registered(sheets_map, shared_strings_map, p)]_vars

(***************************************************************************)
(* C2: after closeExcelFile(p) every query on p throws the document-not-   *)
(* open error, and goes on doing so until openExcelFile(p) is called;      *)
(* closeExcelFile of a path in neither registry changes neither registry.  *)
(***************************************************************************)
C2_CloseThenNotOpen ==
  [][\A p \in Paths :
       /\ Step("closeExcelFile", p) =>
            /\ AllNotOpen(sheets_map', shared_strings_map', p)
            /\ (p \notin DOMAIN sheets_map /\ p \notin DOMAIN shared_strings_map)
                 => UNCHANGED <<sheets_map, shared_strings_map>>
       /\ (AllNotOpen(sheets_map, shared_strings_map, p)
           /\ ~Step("openExcelFile", p))
            => AllNotOpen(sheets_map', shared_strings_map', p)]_vars

\* closeExcelFile has just run on a path that was open, with both sheets and
\* shared strings registered before it.
C2_Witness ==
  /\ last.op = "closeExcelFile" /\ last.prior
  /\ GoodPackage = archive[last.file]

(***************************************************************************)
(* C3: on a closed or never opened path all three queries throw document-  *)
(* not-open; on an open path getSheetNames returns, getSheet with a name   *)
(* the workbook does not declare throws sheet-not-found and                *)
(* getSharedString with an index the table does not have throws            *)
(* index-not-found.                                                        *)
(***************************************************************************)
C3_LookupErrors ==
  \A p \in Paths :
    /\ docstate[p] = "closed" => AllNotOpen(sheets_map, shared_strings_map, p)
    /\ docstate[p] = "open" =>
         /\ GetSheetNames(sheets_map, p).status = "return"
         /\ \A n \in Names \ DeclaredNames(p) :
              GetSheet(sheets_map, p, n).what = SheetNotFound
         /\ \A i \in Indexes :
              i \notin DOMAIN Subscript(shared_strings_map, p) =>
                GetSharedString(shared_strings_map, p, i).what = IndexNotFound

(***************************************************************************)
(* C4: after a successful openExcelFile of a package that declares at      *)
(* least one sheet and holds the member of every declared sheet,           *)
(* getSheetNames returns the names the workbook declares.                  *)
(***************************************************************************)
C4_SheetNamesAreDeclared ==
  \A p \in Paths :
    (/\ docstate[p] = "open"
     /\ WellDeclared(p)
     /\ Declared(p) # <<>>
     /\ \A i \in 1..Len(Declared(p)) : MemberParses(p, Declared(p)[i]))
    => LET r == GetSheetNames(sheets_map, p) IN
       /\ r.status = "return"
       /\ {r.value[i] : i \in 1..Len(r.value)} = DeclaredNames(p)

(***************************************************************************)
(* C5: openExcelFile of a package whose workbook declares a sheet whose    *)
(* member is missing or unreadable returns without an exception; the       *)
(* sheets whose members are present are registered, the others are not.    *)
(***************************************************************************)
C5_MissingSheetSkipped ==
  \A p \in Paths :
    (/\ last.op = "openExcelFile" /\ last.file = p /\ last.io
     /\ WellDeclared(p)
     /\ \E i \in 1..Len(Declared(p)) : MemberMissing(p, Declared(p)[i])
     /\ \A i \in 1..Len(Declared(p)) :
          MemberMissing(p, Declared(p)[i]) \/ MemberParses(p, Declared(p)[i]))
    => /\ last.res.status = "return"
       /\ \A i \in 1..Len(Declared(p)) :
            LET d == Declared(p)[i] IN
            MemberParses(p, d) => DeclName(d) \in DOMAIN Subscript(sheets_map, p)

(***************************************************************************)
(* C6: openExcelFile(p) and closeExcelFile(p), whatever their outcome,     *)
(* leave what is registered for every other path q, and so the result of   *)
(* every query on q, as it was.                                            *)
(***************************************************************************)
C6_OtherPathsUntouched ==
  [][\A p \in Paths : \A q \in Paths \ {p} :
       (Step("openExcelFile", p) \/ Step("closeExcelFile", p)) =>
         /\ Registered(sheets_map', shared_strings_map', q)
              = Registered(sheets_map, shared_strings_map, q)
         /\ \A n \in Names :
              GetSheet(sheets_map', q, n) = GetSheet(sheets_map, q, n)
         /\ \A i \in Indexes :
              GetSharedString(shared_strings_map', q, i)
                = GetSharedString(shared_strings_map, q, i)
         /\ GetSheetNames(sheets_map', q) = GetSheetNames(sheets_map, q)]_vars

\* openExcelFile of p1 has just ended with an exception raised after the
\* archive was opened, while p2 has sheets and shared strings registered.
C6_Witness ==
  /\ last.op = "openExcelFile" /\ last.file = "p1"
  /\ last.res.status = "throw" /\ last.res.what # ArchiveOpenError
  /\ "p2" \in DOMAIN sheets_map /\ "p2" \in DOMAIN shared_strings_map

(***************************************************************************)
(* C7: a path has its sheets and its shared strings registered together or *)
(* not at all, and only when its openExcelFile returned; after an          *)
(* openExcelFile that ended with an exception no query on the path         *)
(* returns.                                                                *)
(***************************************************************************)
C7_AllOrNothing ==
  \A p \in Paths :
    /\ (p \in DOMAIN sheets_map) = (p \in DOMAIN shared_strings_map)
    /\ p \in DOMAIN sheets_map => docstate[p] = "open"
    /\ docstate[p] = "failed" =>
         /\ \A n \in Names : GetSheet(sheets_map, p, n).status = "throw"
         /\ GetSheetNames(sheets_map, p).status = "throw"
         /\ \A i \in Indexes :
              IsNotOpen(GetSharedString(shared_strings_map, p, i))

(***************************************************************************)
(* C8: at most one thread is inside the body of a public method, it is the *)
(* thread that holds io_mutex, and io_mutex is free whenever no thread is  *)
(* inside a body, whether the last body returned or threw.                 *)
(***************************************************************************)
InBody == {t \in Threads : pc[t].at = "body"}

C8_MutualExclusion ==
  /\ Cardinality(InBody) <= 1
  /\ \A t \in Threads : (io_mutex = t) = (t \in InBody)
  /\ InBody = {} => io_mutex = NoThread

\* A thread is inside a body while the other waits for the mutex, after an
\* operation of the waiting thread ended with an exception and an
\* openExcelFile was unwound by the pointer thrown while reading the archive.
C8_Witness ==
  /\ pc["t1"].at = "body" /\ io_mutex = "t1"
  /\ pc["t2"].at = "lock" /\ pc["t2"].ret = "throw"
  /\ open_books > 0

(***************************************************************************)
(* C9: after a successful openExcelFile, the string of every <si> entry    *)
(* whose extraction succeeded is returned by getSharedString at the        *)
(* entry's 0-based position among all the <si> entries of the part.        *)
(***************************************************************************)
IsSi(c) == c.tag = "si"

SiEntries(p) ==
  IF Readable(p, SharedStringsMember)
     /\ Part(p, SharedStringsMember).root = "sst"
  THEN SelectSeq(Part(p, SharedStringsMember).children, IsSi)
  ELSE <<>>

C9_AbsolutePosition ==
  \A p \in Paths :
    docstate[p] = "open" =>
      \A k \in 1..Len(SiEntries(p)) :
        LET x == ExtractEntry(SiEntries(p)[k].kids) IN
        x.status = "return" =>
          LET g == GetSharedString(shared_strings_map, p, k - 1) IN
          g.status = "return" /\ g.value = x.value

\* getSharedString has just returned the string of an entry that follows an
\* entry whose extraction failed.
C9_Witness ==
  /\ last.op = "getSharedString" /\ last.res.status = "return"
  /\ last.index >= 1
  /\ \E j \in 1..last.index :
       ExtractEntry(SiEntries(last.file)[j].kids).status = "throw"

(***************************************************************************)
(* C10: the string stored for an <si> entry that has run children is the   *)
(* concatenation, in child order, of the texts of its runs' text nodes,    *)
(* also when the entry has phonetic runs or phonetic properties beside     *)
(* the runs.                                                               *)
(***************************************************************************)
RECURSIVE RunsText(_)
RunsText(kids) ==
  IF kids = <<>> THEN <<>>
  ELSE IF Head(kids).tag = "r" THEN Head(kids).t \o RunsText(Tail(kids))
  ELSE RunsText(Tail(kids))

C10_RunsConcatenated ==
  \A p \in Paths :
    docstate[p] = "open" =>
      \A k \in 1..Len(SiEntries(p)) :
        LET kids == SiEntries(p)[k].kids IN
        (/\ HasChild(kids, "r")
         /\ \A i \in 1..Len(kids) :
              /\ kids[i].tag \in {"r", "rPh", "phoneticPr"}
              /\ kids[i].tag = "r" => kids[i].has_t)
        => LET g == GetSharedString(shared_strings_map, p, k - 1) IN
           g.status = "return" /\ g.value = RunsText(kids)

(***************************************************************************)
(* C11: what the shared strings table of an open path holds.               *)
(***************************************************************************)
Extracted(p) ==
  {k \in 1..Len(SiEntries(p)) :
     ExtractEntry(SiEntries(p)[k].kids).status = "return"}

\* C11 as stated: an entry whose extraction throws does not consume an
\* index, so the keys of the table of an open path are 0..n-1, n being the
\* number of entries whose extraction succeeded.
C11_IndexOnlyOnSuccess ==
  \A p \in Paths :
    docstate[p] = "open" =>
      DOMAIN Subscript(shared_strings_map, p)
        = 0..(Cardinality(Extracted(p)) - 1)

\* C11 amended: an entry whose extraction throws is skipped and does consume
\* an index: the keys of the table of an open path are exactly the 0-based
\* positions, among all the <si> entries of the part, of the entries whose
\* extraction succeeded.
C11_SkippedEntryKeepsIndex ==
  \A p \in Paths :
    docstate[p] = "open" =>
      DOMAIN Subscript(shared_strings_map, p) = {k - 1 : k \in Extracted(p)}

\* openExcelFile has just returned on a part whose table has a key above a
\* position that is not a key: an entry was skipped before an extracted one.
C11_Witness ==
  /\ last.op = "openExcelFile" /\ last.res.status = "return" /\ last.io
  /\ \E j \in Extracted(last.file) : \E i \in 1..(j - 1) :
       /\ i \notin Extracted(last.file)
       /\ (j - 1) \in DOMAIN Subscript(shared_strings_map, last.file)
       /\ (i - 1) \notin DOMAIN Subscript(shared_strings_map, last.file)

(***************************************************************************)
(* C12: which cell of a row is kept for a column.                          *)
(***************************************************************************)
\* The declaration i of p is the only one with its name and with its id.
UniquelyDeclared(p, i) ==
  \A j \in 1..Len(Declared(p)) \ {i} :
    /\ DeclName(Declared(p)[j]) # DeclName(Declared(p)[i])
    /\ DeclId(Declared(p)[j]) # DeclId(Declared(p)[i])

RowsOf(p, d) ==
  IF Readable(p, SheetMember(DeclId(d)))
     /\ Part(p, SheetMember(DeclId(d))).has_sheetData
  THEN Part(p, SheetMember(DeclId(d))).rows ELSE <<>>

HasRef(c) == c.has_attr /\ "r" \in DOMAIN c.attrs
ValueCell(c) == c.tag = "c" /\ c.has_v

\* A row with a number in its r attribute whose cells with a value all have
\* a reference.
CleanRow(row) ==
  /\ row.tag = "row" /\ HasRef(row)
  /\ StoI(row.attrs["r"]).status = "return"
  /\ \A j \in 1..Len(row.cells) : ValueCell(row.cells[j]) => HasRef(row.cells[j])

RowId(row) == StoI(row.attrs["r"]).value

\* The clean rows that are the first clean row of their number.
FirstClean(rows) ==
  {i \in 1..Len(rows) :
     /\ CleanRow(rows[i])
     /\ \A h \in 1..(i - 1) : CleanRow(rows[h]) => RowId(rows[h]) # RowId(rows[i])}

\* The positions in the row of the cells with a value of column key.
ColCells(row, key) ==
  {j \in 1..Len(row.cells) :
     ValueCell(row.cells[j]) /\ ColumnKey(row.cells[j].attrs["r"]) = key}

ColumnKeys(row) ==
  {ColumnKey(row.cells[j].attrs["r"]) :
     j \in {x \in 1..Len(row.cells) : ValueCell(row.cells[x])}}

CellAt(row, j) ==
  [type |-> IF "t" \in DOMAIN row.cells[j].attrs THEN "STRING" ELSE "NUMBER",
   value |-> row.cells[j].v]

FirstOf(S) == CHOOSE j \in S : \A x \in S : j <= x
LastOf(S) == CHOOSE j \in S : \A x \in S : j >= x

\* The sheet that getSheet returns for a uniquely declared sheet holds each
\* of the rows of its part and, for each column of the row, the cell that
\* Pick takes among the cells of that column.
RowsHold(Pick(_)) ==
  \A p \in Paths :
    WellDeclared(p) =>
      \A i \in 1..Len(Declared(p)) :
        LET d == Declared(p)[i]
            rows == RowsOf(p, d)
            g == GetSheet(sheets_map, p, DeclName(d))
        IN (UniquelyDeclared(p, i) /\ g.status = "return") =>
             \A j \in FirstClean(rows) :
               /\ RowId(rows[j]) \in DOMAIN g.value
               /\ \A key \in ColumnKeys(rows[j]) :
                    /\ key \in DOMAIN g.value[RowId(rows[j])]
                    /\ g.value[RowId(rows[j])][key]
                         = CellAt(rows[j], Pick(ColCells(rows[j], key)))

\* C12 as stated: when several cells of a row have references with the same
\* column letters, the row mapping holds the value and type of the last of
\* them in document order.
C12_LastWriteWins == RowsHold(LastOf)

\* C12 amended: cells are inserted keyed by column key with first-write-wins:
\* when several cells of a row have references with the same column letters,
\* the row mapping holds the value and type of the first of them in document
\* order.
C12_FirstWriteWins == RowsHold(FirstOf)

\* getSheet has just returned a sheet one of whose rows comes from a row with
\* two cells of the same column that differ in value and type.
C12_Witness ==
  /\ last.op = "getSheet" /\ last.res.status = "return"
  /\ \E i \in 1..Len(Declared(last.file)) :
       /\ DeclName(Declared(last.file)[i]) = last.name
       /\ LET rows == RowsOf(last.file, Declared(last.file)[i]) IN
          \E j \in FirstClean(rows) : \E key \in ColumnKeys(rows[j]) :
            /\ RowId(rows[j]) \in DOMAIN last.res.value
            /\ CellAt(rows[j], FirstOf(ColCells(rows[j], key)))
                 # CellAt(rows[j], LastOf(ColCells(rows[j], key)))

(***************************************************************************)
(* C13: openExcelFile of a package whose sheets hold, beside rows that     *)
(* parse, rows whose r attribute is absent (rows without attributes        *)
(* included) or is not a number, returns without an exception, and every   *)
(* row that parses is in the registered sheet under its own row index.     *)
(***************************************************************************)
BadRow(row) ==
  /\ row.tag = "row"
  /\ ~HasRef(row) \/ StoI(row.attrs["r"]).status = "throw"

C13_BadRowSkipped ==
  \A p \in Paths :
    (/\ last.op = "openExcelFile" /\ last.file = p /\ last.io
     /\ WellDeclared(p)
     /\ \A i \in 1..Len(Declared(p)) :
          LET d == Declared(p)[i] IN
          /\ UniquelyDeclared(p, i)
          /\ Readable(p, SheetMember(DeclId(d)))
          /\ Part(p, SheetMember(DeclId(d))).has_sheetData
          /\ \A j \in 1..Len(RowsOf(p, d)) :
               BadRow(RowsOf(p, d)[j]) \/ CleanRow(RowsOf(p, d)[j])
     /\ \E i \in 1..Len(Declared(p)) :
          \E j \in 1..Len(RowsOf(p, Declared(p)[i])) :
            BadRow(RowsOf(p, Declared(p)[i])[j]))
    => /\ last.res.status = "return"
       /\ \A i \in 1..Len(Declared(p)) :
            LET d == Declared(p)[i]
                g == GetSheet(sheets_map, p, DeclName(d))
            IN /\ g.status = "return"
               /\ \A j \in 1..Len(RowsOf(p, d)) :
                    CleanRow(RowsOf(p, d)[j])
                      => RowId(RowsOf(p, d)[j]) \in DOMAIN g.value

(***************************************************************************)
(* C14: whenever openExcelFile has returned, normally or by an exception   *)
(* raised after zip_open succeeded, the archive it opened has been closed: *)
(* no archive is open between the operations on the registry.              *)
(***************************************************************************)
C14_HandleScopedToOpen == open_books = 0

====
